---- MODULE Spec2Model ----
(***************************************************************************)
(* Model of the composite language-similarity calculator                   *)
(* (src/src/processors/composite_similarity_calculator.py,                 *)
(* class FixedSimilarityCalculator).                                       *)
(*                                                                         *)
(* Numbers.  The code computes in floating point over decimal literals.    *)
(* The model computes the same expressions exactly, in fixed point:        *)
(*   - a correlation is an integer number of hundredths (58 is 0.58);      *)
(*   - a component of the breakdown (semantic base, family, contact and    *)
(*     cultural similarity) is an integer number of thousandths            *)
(*     (750 is 0.75);                                                      *)
(*   - a weight is an integer number of hundredths (40 is 0.40);           *)
(*   - a score (global, local) is weight * component, an integer number    *)
(*     of hundred-thousandths (64100 is 0.641).                            *)
(* Every comparison the code makes is between table literals and           *)
(* threshold literals, so the exact comparison agrees with the float one.  *)
(***************************************************************************)
EXTENDS Integers, FiniteSets, Sequences, TLC

(***************************************************************************)
(* Bounds of the model.                                                    *)
(***************************************************************************)
\* Correlations are drawn from -MaxCorr..MaxCorr hundredths; the range the
\* contract names, [-1,1], is -100..100, strictly inside it.
MaxCorr == 150

(***************************************************************************)
(* Units.                                                                  *)
(***************************************************************************)
\* 1.0 as a score (hundred-thousandths): the cap of min(score, 1.0).
ScoreOne == 100000

(***************************************************************************)
(* Python's None, and Optional[float].                                     *)
(***************************************************************************)
None == [none |-> TRUE]
Some(v) == [value |-> v]

\* dict.get(key, default)
Get(d, key, default) == IF key \in DOMAIN d THEN d[key] ELSE default

(***************************************************************************)
(* The tables set by __init__.                                             *)
(***************************************************************************)
Class(f, b, s) == [family |-> f, branch |-> b, sub_branch |-> s]

LanguageFamiliesTable ==
  [l \in {"es", "it", "fr", "pt", "ro", "en", "de", "nl", "ru", "pl", "hi", "ur"} |->
     CASE l = "es" -> Class("Indo-European", "Romance", "Ibero-Romance")
       [] l = "it" -> Class("Indo-European", "Romance", "Italo-Western")
       [] l = "fr" -> Class("Indo-European", "Romance", "Gallo-Romance")
       [] l = "pt" -> Class("Indo-European", "Romance", "Ibero-Romance")
       [] l = "ro" -> Class("Indo-European", "Romance", "Eastern Romance")
       [] l = "en" -> Class("Indo-European", "Germanic", "West Germanic")
       [] l = "de" -> Class("Indo-European", "Germanic", "West Germanic")
       [] l = "nl" -> Class("Indo-European", "Germanic", "West Germanic")
       [] l = "ru" -> Class("Indo-European", "Slavic", "East Slavic")
       [] l = "pl" -> Class("Indo-European", "Slavic", "West Slavic")
       [] l = "hi" -> Class("Indo-European", "Indo-Aryan", "Central Indo-Aryan")
       [] l = "ur" -> Class("Indo-European", "Indo-Aryan", "Central Indo-Aryan")]

HistoricalContactsTable ==
  (<<"es", "it">> :> 450) @@ (<<"es", "fr">> :> 400) @@ (<<"it", "fr">> :> 500) @@
  (<<"en", "fr">> :> 350) @@ (<<"en", "de">> :> 250) @@ (<<"ru", "pl">> :> 300) @@
  (<<"hi", "ur">> :> 650)

FamilySimilarityBaselinesTable ==
  [b \in {"Romance", "Germanic", "Slavic", "Indo-Aryan"} |->
     CASE b = "Romance"    -> [same_sub_branch |-> 850, different_sub_branch |-> 750, base |-> 700]
       [] b = "Germanic"   -> [same_sub_branch |-> 700, different_sub_branch |-> 600, base |-> 550]
       [] b = "Slavic"     -> [same_sub_branch |-> 750, different_sub_branch |-> 650, base |-> 600]
       [] b = "Indo-Aryan" -> [same_sub_branch |-> 800, different_sub_branch |-> 650, base |-> 600]]

\* The local table of _calculate_cultural_similarity_fixed.
cultural_proximities ==
  (<<"es", "it">> :> 400) @@ (<<"es", "fr">> :> 350) @@ (<<"it", "fr">> :> 380) @@
  (<<"en", "de">> :> 250) @@ (<<"ru", "pl">> :> 300) @@ (<<"hi", "ur">> :> 500)

(***************************************************************************)
(* Inputs.                                                                 *)
(***************************************************************************)
\* Every classified code, and three codes no table knows.
UnknownCodes == {"zh", "xx", "yy"}
LanguageCodes == DOMAIN LanguageFamiliesTable \cup UnknownCodes

\* Optional[float]: absent, or a number of hundredths, in and out of [-1,1].
Correlations == {None} \cup {Some(r) : r \in (0 - MaxCorr)..MaxCorr}

VARIABLES
  language_families,            \* self.language_families
  historical_contacts,          \* self.historical_contacts
  family_similarity_baselines,  \* self.family_similarity_baselines
  lang1, lang2,                 \* the arguments of the call
  systemsem_correlation,
  result,                       \* the returned dict, None before the return
  pc,                           \* "call" before the call, "done" after it
  history,                      \* the calls the calculator has served, in order
  raw_correlations,             \* CorrelationProcessor: the raw correlations, in
                                \* insertion order (the dict process() extracts)
  composite_similarities,       \* the dict _generate_composite_similarities builds
                                \* and _add_high_confidence_pairs updates in place
  memoria_format,               \* what _format_for_memoria returned or raised
  expansions,                   \* the number of calls of _add_high_confidence_pairs
  correlation_files,            \* the files find_files returned, in its order
  next_file,                    \* the index of the file the extraction loop is at
  ppc                           \* the position of the processor

vars == <<language_families, historical_contacts, family_similarity_baselines,
          lang1, lang2, systemsem_correlation, result, pc, history,
          raw_correlations, composite_similarities, memoria_format, expansions,
          correlation_files, next_file, ppc>>

tables == <<language_families, historical_contacts, family_similarity_baselines>>

\* The arguments and the result of a call of the calculator.
call == <<lang1, lang2, systemsem_correlation, result, pc, history>>

\* The state of the CorrelationProcessor.
processor == <<raw_correlations, composite_similarities, memoria_format, expansions,
               correlation_files, next_file, ppc>>

\* The files of the extraction loop.
files == <<correlation_files, next_file>>

(***************************************************************************)
(* Weights and thresholds.                                                 *)
(***************************************************************************)
\* _calculate_global_score: weights['semantic'], ['family'], ['contact'],
\* ['cultural'], in hundredths.
GlobalWeightSemantic == 40
GlobalWeightFamily == 35
GlobalWeightContact == 15
GlobalWeightCultural == 10
\* _calculate_local_score: the inline weights, in hundredths.
LocalWeightSemantic == 50
LocalWeightFamily == 40
LocalWeightContact == 10
\* _calculate_semantic_base: the default 0.60, and 0.5 + r * 0.5, in
\* thousandths (a hundredth of correlation is five thousandths of base).
SemanticDefault == 600
SemanticOffset == 500
SemanticSlope == 5
\* _calculate_family_similarity_fixed: the inline constants, in thousandths.
FamilyUnknown == 100
FamilyDifferentFamily == 100
FamilyDifferentBranch == 300
FamilySameBranchDefault == 650
\* The defaults of the two bonus lookups, in thousandths.
ContactDefault == 0
CulturalDefault == 100
\* _determine_confidence: the thresholds, in thousandths.
ConfidenceFamilyHigh == 700
ConfidenceFamilyMediumHigh == 500
ConfidenceContactMediumHigh == 300
ConfidenceFamilyMedium == 300
ConfidenceContactMedium == 150
\* _determine_strategy: the thresholds, in thousandths.
StrategyFamilyCognate == 700
StrategyContactBorrowing == 300
StrategyFamilyStructural == 300

\* min(a, b)
Min(a, b) == IF a <= b THEN a ELSE b

(***************************************************************************)
(* The methods of FixedSimilarityCalculator.                               *)
(***************************************************************************)
\* Faulty variant: tests the correlation for truth, not for None, so that a
\* correlation of 0.0 takes the default.
MutSemanticBaseTruthiness(correlation) ==
  IF correlation # None /\ correlation.value # 0
    THEN SemanticOffset + correlation.value * SemanticSlope
    ELSE SemanticDefault

\* Faulty variant: takes the correlation itself as the similarity, without the
\* rescaling of [-1,1] onto [0,1].
MutSemanticBaseRaw(correlation) ==
  IF correlation # None
    THEN correlation.value * 2 * SemanticSlope
    ELSE SemanticDefault

\* Faulty variant: the rescaling is inverted, as for a distance: 0.5 - r * 0.5.
MutSemanticBaseInverted(correlation) ==
  IF correlation # None
    THEN SemanticOffset - correlation.value * SemanticSlope
    ELSE SemanticDefault

\* Faulty variant: an absent correlation is taken as a correlation of 0.0.
MutSemanticBaseAbsentAsZero(correlation) ==
  IF correlation # None
    THEN SemanticOffset + correlation.value * SemanticSlope
    ELSE SemanticOffset

\* _calculate_semantic_base
_calculate_semantic_base(correlation) ==
  IF correlation # None
    THEN SemanticOffset + correlation.value * SemanticSlope
    ELSE SemanticDefault

\* Faulty variant: within a branch, compares the branches again where the code
\* compares the sub-branches, so that every pair takes the same-sub-branch tier.
MutFamilyDecisionBranchTwice(family1, family2, baselines) ==
  IF family1 = None \/ family2 = None THEN FamilyUnknown
  ELSE IF family1.family # family2.family THEN FamilyDifferentFamily
  ELSE IF family1.branch # family2.branch THEN FamilyDifferentBranch
  ELSE IF family1.branch \in DOMAIN baselines
    THEN baselines[family1.branch].same_sub_branch
    ELSE FamilySameBranchDefault

\* The body of _calculate_family_similarity_fixed after the two lookups:
\* family1 and family2 are classification records or None.
FamilyDecision(family1, family2, baselines) ==
  IF family1 = None \/ family2 = None THEN FamilyUnknown
  ELSE IF family1.family # family2.family THEN FamilyDifferentFamily
  ELSE IF family1.branch # family2.branch THEN FamilyDifferentBranch
  ELSE LET branch == family1.branch
           same == family1.sub_branch = family2.sub_branch
       IN  IF branch = "Romance"
             THEN IF same THEN baselines["Romance"].same_sub_branch
                          ELSE baselines["Romance"].different_sub_branch
           ELSE IF branch = "Germanic"
             THEN IF same THEN baselines["Germanic"].same_sub_branch
                          ELSE baselines["Germanic"].different_sub_branch
           ELSE IF branch = "Slavic"
             THEN IF same THEN baselines["Slavic"].same_sub_branch
                          ELSE baselines["Slavic"].different_sub_branch
           ELSE IF branch = "Indo-Aryan"
             THEN IF same THEN baselines["Indo-Aryan"].same_sub_branch
                          ELSE baselines["Indo-Aryan"].different_sub_branch
           ELSE FamilySameBranchDefault

\* Faulty variant: an unknown language is scored as a distant relative (the
\* different-branch constant) where the code returns the unknown constant.
MutFamilyUnknownAsDifferentBranch(l1, l2) ==
  IF l1 \notin DOMAIN language_families \/ l2 \notin DOMAIN language_families
    THEN FamilyDifferentBranch
    ELSE LET family1 == language_families[l1]
             family2 == language_families[l2]
         IN  IF family1.family # family2.family THEN FamilyDifferentFamily
             ELSE IF family1.branch # family2.branch THEN FamilyDifferentBranch
             ELSE IF family1.branch \in DOMAIN family_similarity_baselines
               THEN IF family1.sub_branch = family2.sub_branch
                      THEN family_similarity_baselines[family1.branch].same_sub_branch
                      ELSE family_similarity_baselines[family1.branch].different_sub_branch
             ELSE FamilySameBranchDefault

\* _calculate_family_similarity_fixed
_calculate_family_similarity_fixed(l1, l2) ==
  FamilyDecision(Get(language_families, l1, None),
                 Get(language_families, l2, None),
                 family_similarity_baselines)

\* Faulty variant: only the key as given is looked up, not the reversed one.
MutContactOneDirection(l1, l2) ==
  Get(historical_contacts, <<l1, l2>>, ContactDefault)

\* Faulty variant: the contact lookup falls back on the default of the
\* cultural lookup.
MutContactCulturalDefault(l1, l2) ==
  LET key1 == <<l1, l2>>
      key2 == <<l2, l1>>
  IN  Get(historical_contacts, key1, Get(historical_contacts, key2, CulturalDefault))

\* _calculate_contact_similarity_fixed
_calculate_contact_similarity_fixed(l1, l2) ==
  LET key1 == <<l1, l2>>
      key2 == <<l2, l1>>
  IN  Get(historical_contacts, key1, Get(historical_contacts, key2, ContactDefault))

\* Faulty variant: the cultural lookup tries the key as given only.
MutCulturalOneDirection(l1, l2) ==
  Get(cultural_proximities, <<l1, l2>>, CulturalDefault)

\* _calculate_cultural_similarity_fixed
_calculate_cultural_similarity_fixed(l1, l2) ==
  LET key1 == <<l1, l2>>
      key2 == <<l2, l1>>
  IN  Get(cultural_proximities, key1, Get(cultural_proximities, key2, CulturalDefault))

\* Faulty variant: the contact and the cultural weight are exchanged.
MutGlobalScoreSwappedWeights(semantic_base, family_sim, contact_sim, cultural_sim) ==
  LET global_score == semantic_base * GlobalWeightSemantic
                      + family_sim * GlobalWeightFamily
                      + contact_sim * GlobalWeightCultural
                      + cultural_sim * GlobalWeightContact
  IN  IF global_score <= ScoreOne THEN global_score ELSE ScoreOne

\* _calculate_global_score
_calculate_global_score(semantic_base, family_sim, contact_sim, cultural_sim) ==
  LET global_score == semantic_base * GlobalWeightSemantic
                      + family_sim * GlobalWeightFamily
                      + contact_sim * GlobalWeightContact
                      + cultural_sim * GlobalWeightCultural
  IN  Min(global_score, ScoreOne)

\* Faulty variant: the local score is computed with the global weights.
MutLocalScoreGlobalWeights(semantic_base, family_sim, contact_sim) ==
  LET local_score == semantic_base * GlobalWeightSemantic
                     + family_sim * GlobalWeightFamily
                     + contact_sim * GlobalWeightContact
  IN  IF local_score <= ScoreOne THEN local_score ELSE ScoreOne

\* _calculate_local_score
_calculate_local_score(semantic_base, family_sim, contact_sim) ==
  LET local_score == semantic_base * LocalWeightSemantic
                     + family_sim * LocalWeightFamily
                     + contact_sim * LocalWeightContact
  IN  Min(local_score, ScoreOne)

\* Faulty variant: the thresholds are compared with > where the code has >=.
MutConfidenceStrict(family_sim, contact_sim) ==
  IF family_sim > ConfidenceFamilyHigh THEN "high"
  ELSE IF family_sim > ConfidenceFamilyMediumHigh
          \/ contact_sim > ConfidenceContactMediumHigh THEN "medium-high"
  ELSE IF family_sim > ConfidenceFamilyMedium
          \/ contact_sim > ConfidenceContactMedium THEN "medium"
  ELSE "low"

\* Faulty variant: the tiers are one threshold too high (high from 0.80).
MutConfidenceHighFrom800(family_sim, contact_sim) ==
  IF family_sim >= ConfidenceFamilyHigh + 100 THEN "high"
  ELSE IF family_sim >= ConfidenceFamilyMediumHigh
          \/ contact_sim >= ConfidenceContactMediumHigh THEN "medium-high"
  ELSE IF family_sim >= ConfidenceFamilyMedium
          \/ contact_sim >= ConfidenceContactMedium THEN "medium"
  ELSE "low"

\* _determine_confidence
_determine_confidence(family_sim, contact_sim) ==
  IF family_sim >= ConfidenceFamilyHigh THEN "high"
  ELSE IF family_sim >= ConfidenceFamilyMediumHigh
          \/ contact_sim >= ConfidenceContactMediumHigh THEN "medium-high"
  ELSE IF family_sim >= ConfidenceFamilyMedium
          \/ contact_sim >= ConfidenceContactMedium THEN "medium"
  ELSE "low"

\* Faulty variant: the contact rule is tried before the family rule.
MutStrategyContactFirst(l1, l2, family_sim, contact_sim) ==
  IF contact_sim >= StrategyContactBorrowing THEN "borrowing_patterns"
  ELSE IF family_sim >= StrategyFamilyCognate THEN "cognate_recognition"
  ELSE IF family_sim >= StrategyFamilyStructural THEN "structural_comparison"
  ELSE "conceptual_bridging"

\* _determine_strategy
_determine_strategy(l1, l2, family_sim, contact_sim) ==
  IF family_sim >= StrategyFamilyCognate THEN "cognate_recognition"
  ELSE IF contact_sim >= StrategyContactBorrowing THEN "borrowing_patterns"
  ELSE IF family_sim >= StrategyFamilyStructural THEN "structural_comparison"
  ELSE "conceptual_bridging"

\* The dict calculate_composite_similarity returns.
CompositeResult(l1, l2, correlation) ==
  LET semantic_base == _calculate_semantic_base(correlation)
      family_similarity == _calculate_family_similarity_fixed(l1, l2)
      contact_similarity == _calculate_contact_similarity_fixed(l1, l2)
      cultural_similarity == _calculate_cultural_similarity_fixed(l1, l2)
      global_score == _calculate_global_score(semantic_base, family_similarity,
                                              contact_similarity, cultural_similarity)
      local_score == _calculate_local_score(semantic_base, family_similarity,
                                            contact_similarity)
  IN  [score |-> global_score,
       global |-> global_score,
       local |-> local_score,
       confidence |-> _determine_confidence(family_similarity, contact_similarity),
       strategy |-> _determine_strategy(l1, l2, family_similarity, contact_similarity),
       breakdown |-> [semantic_base |-> semantic_base,
                      family_similarity |-> family_similarity,
                      contact_similarity |-> contact_similarity,
                      cultural_similarity |-> cultural_similarity],
       systematic_measures_used |-> <<"wals_corrected", "asjp", "physical", "ecological">>,
       calculation_method |-> "fixed_systematic"]

(***************************************************************************)
(* The state machine: one call of calculate_composite_similarity on a      *)
(* freshly constructed calculator.                                         *)
(***************************************************************************)
\* __init__, followed by the caller's choice of arguments.
Init ==
  /\ language_families = LanguageFamiliesTable
  /\ historical_contacts = HistoricalContactsTable
  /\ family_similarity_baselines = FamilySimilarityBaselinesTable
  /\ lang1 \in LanguageCodes
  /\ lang2 \in LanguageCodes
  /\ systemsem_correlation \in Correlations
  /\ result = None
  /\ pc = "call"
  /\ history = <<>>
  /\ raw_correlations = <<>>
  /\ composite_similarities = None
  /\ memoria_format = None
  /\ expansions = 0
  /\ correlation_files = <<>>
  /\ next_file = 1
  /\ ppc = "idle"

\* The entry of a call in the history.
Served(l1, l2, correlation, composite_result) ==
  [lang1 |-> l1, lang2 |-> l2, systemsem_correlation |-> correlation,
   result |-> composite_result]

\* Faulty variant: the call keeps the semantic base it computed as the
\* contact of the pair.
MutCalculateRecordsContact ==
  /\ pc = "call"
  /\ result' = CompositeResult(lang1, lang2, systemsem_correlation)
  /\ pc' = "done"
  /\ history' = Append(history, Served(lang1, lang2, systemsem_correlation, result'))
  /\ historical_contacts' =
       [key \in DOMAIN historical_contacts \cup {<<lang1, lang2>>} |->
          IF key = <<lang1, lang2>>
            THEN _calculate_semantic_base(systemsem_correlation)
            ELSE historical_contacts[key]]
  /\ UNCHANGED <<language_families, family_similarity_baselines,
                 lang1, lang2, systemsem_correlation, processor>>

\* calculate_composite_similarity(lang1, lang2, systemsem_correlation)
calculate_composite_similarity ==
  /\ pc = "call"
  /\ result' = CompositeResult(lang1, lang2, systemsem_correlation)
  /\ pc' = "done"
  /\ history' = Append(history, Served(lang1, lang2, systemsem_correlation, result'))
  /\ UNCHANGED <<tables, lang1, lang2, systemsem_correlation, processor>>

Next == calculate_composite_similarity

Spec == Init /\ [][Next]_vars

(***************************************************************************)
(* Vocabulary of the properties.                                           *)
(***************************************************************************)
\* The call has returned.
Returned == pc = "done"
\* The correlation is absent.
Absent == systemsem_correlation = None
\* The correlation is supplied and lies in [-1,1].
InRange ==
  /\ systemsem_correlation # None
  /\ systemsem_correlation.value >= 0 - 100
  /\ systemsem_correlation.value <= 100
\* clamp01 of a score.
Clamp01(x) == IF x < 0 THEN 0 ELSE IF x > ScoreOne THEN ScoreOne ELSE x

(***************************************************************************)
(* C1. The global score is the clamped weighted sum of the breakdown.      *)
(***************************************************************************)
\* C1: for every language pair and every correlation in [-1,1] or absent, the
\* global score of the result equals clamp01(0.40*semantic_base
\* + 0.35*family_similarity + 0.15*contact_similarity
\* + 0.10*cultural_similarity), the four components being the values of the
\* result's breakdown.
C1_GlobalIsWeightedSum ==
  (Returned /\ (Absent \/ InRange)) =>
    LET b == result.breakdown
    IN  result.global = Clamp01(40 * b.semantic_base + 35 * b.family_similarity
                                + 15 * b.contact_similarity + 10 * b.cultural_similarity)

\* es-it with r = 0.58: every component differs from its default, and
\* 0.40*0.79 + 0.35*0.75 + 0.15*0.45 + 0.10*0.40 = 0.686.
C1_Witness ==
  /\ Returned /\ InRange
  /\ lang1 = "es" /\ lang2 = "it" /\ systemsem_correlation = Some(58)
  /\ result.breakdown = [semantic_base |-> 790, family_similarity |-> 750,
                         contact_similarity |-> 450, cultural_similarity |-> 400]
  /\ result.global = 68600

(***************************************************************************)
(* C2. The local score is the clamped weighted sum of three components.    *)
(***************************************************************************)
\* C2: for every language pair and every correlation in [-1,1] or absent, the
\* local score equals clamp01(0.50*semantic_base + 0.40*family_similarity
\* + 0.10*contact_similarity); the cultural similarity has no part in it.
C2_LocalIsWeightedSum ==
  (Returned /\ (Absent \/ InRange)) =>
    LET b == result.breakdown
    IN  result.local = Clamp01(50 * b.semantic_base + 40 * b.family_similarity
                               + 10 * b.contact_similarity)

\* it-fr and es-it differ in the cultural similarity (0.38, 0.40) and in the
\* contact similarity; hi-ur has the largest cultural similarity, 0.50, and
\* its local score with r = 0.58 is 0.50*0.79 + 0.40*0.80 + 0.10*0.65 = 0.78.
C2_Witness ==
  /\ Returned /\ InRange
  /\ lang1 = "hi" /\ lang2 = "ur" /\ systemsem_correlation = Some(58)
  /\ result.breakdown.cultural_similarity = 500
  /\ result.local = 78000

(***************************************************************************)
(* C3. Family similarity is a decision table over the classifications.     *)
(***************************************************************************)
\* The classifications of the code's table, and three the table does not
\* hold: one of another top-level family, and two of a branch (Celtic) that
\* has no entry in the baselines.
C3_Classifications ==
  {LanguageFamiliesTable[l] : l \in DOMAIN LanguageFamiliesTable}
  \cup {Class("Sino-Tibetan", "Sinitic", "Mandarin"),
        Class("Indo-European", "Celtic", "Goidelic"),
        Class("Indo-European", "Celtic", "Brythonic")}

\* The table of the claim.
C3_Table(c1, c2) ==
  CASE c1.family # c2.family -> 100
    [] c1.family = c2.family /\ c1.branch # c2.branch -> 300
    [] c1.family = c2.family /\ c1.branch = c2.branch ->
         IF c1.branch \in DOMAIN FamilySimilarityBaselinesTable
           THEN IF c1.sub_branch = c2.sub_branch
                  THEN FamilySimilarityBaselinesTable[c1.branch].same_sub_branch
                  ELSE FamilySimilarityBaselinesTable[c1.branch].different_sub_branch
           ELSE 650

\* The Romance tiers the claim gives in numbers.
C3_Romance(c1, c2) ==
  (c1.family = c2.family /\ c1.branch = "Romance" /\ c2.branch = "Romance") =>
    C3_Table(c1, c2) = IF c1.sub_branch = c2.sub_branch THEN 850 ELSE 750

\* The decision of the code (lines 141-180) on every pair of classifications.
C3_OnEveryClassification ==
  \A c1, c2 \in C3_Classifications :
    /\ FamilyDecision(c1, c2, FamilySimilarityBaselinesTable) = C3_Table(c1, c2)
    /\ C3_Romance(c1, c2)

\* C3: two classified languages of different top-level family give 0.1; the
\* same family but different branches give 0.3; the same branch gives that
\* branch's same_sub_branch value when the sub-branches are equal and its
\* different_sub_branch value otherwise (Romance 0.85 / 0.75), and 0.65 only
\* when the branch has no entry in the baselines.  It holds of the family
\* similarity of every call on two classified codes, and of the decision on
\* every pair of classifications.
C3_FamilyDecisionTable ==
  Returned =>
    /\ (lang1 \in DOMAIN language_families /\ lang2 \in DOMAIN language_families) =>
         result.breakdown.family_similarity =
           C3_Table(language_families[lang1], language_families[lang2])
    /\ C3_OnEveryClassification

\* es-it: the same branch (Romance), different sub-branches, 0.75.
C3_Witness ==
  /\ Returned
  /\ lang1 = "es" /\ lang2 = "it"
  /\ language_families[lang1].branch = language_families[lang2].branch
  /\ language_families[lang1].sub_branch # language_families[lang2].sub_branch
  /\ result.breakdown.family_similarity = 750

(***************************************************************************)
(* C4. The semantic base.                                                  *)
(***************************************************************************)
\* C4: the semantic base is 0.5 + 0.5*r whenever a correlation r in [-1,1] is
\* supplied, r = 0 included (0.5, not the default), and it is the default
\* 0.60 when the correlation is absent: the default is taken for an absent
\* correlation and for no supplied one.
C4_SemanticBase ==
  Returned =>
    /\ InRange => result.breakdown.semantic_base = 500 + 5 * systemsem_correlation.value
    /\ Absent => result.breakdown.semantic_base = 600

\* r = 0 is supplied, and gives 0.5.
C4_Witness ==
  /\ Returned /\ InRange
  /\ systemsem_correlation = Some(0)
  /\ result.breakdown.semantic_base = 500

(***************************************************************************)
(* C5. The confidence tier.                                                *)
(***************************************************************************)
\* Values of a similarity on, just below and just above every threshold.
C5_Grid == {0, 100, 149, 150, 151, 299, 300, 301, 499, 500, 501, 699, 700, 701, 1000}

\* The tier of the claim for family similarity f and contact similarity c.
C5_Tier(f, c, tier) ==
  /\ tier = "high" <=> f >= 700
  /\ tier = "medium-high" <=> (f < 700 /\ (f >= 500 \/ c >= 300))
  /\ tier = "medium" <=> (f < 500 /\ c < 300 /\ (f >= 300 \/ c >= 150))
  /\ tier = "low" <=> (f < 300 /\ c < 150)

\* _determine_confidence on every pair of grid values.
C5_OnGrid ==
  \A f, c \in C5_Grid : C5_Tier(f, c, _determine_confidence(f, c))

\* C5: the confidence is decided top-down, first match wins, from
\* family_similarity and contact_similarity only: family >= 0.70 gives high;
\* else family >= 0.50 or contact >= 0.30 gives medium-high; else
\* family >= 0.30 or contact >= 0.15 gives medium; else low.  A value on a
\* threshold takes the higher tier.
C5_ConfidenceTier ==
  Returned =>
    /\ C5_Tier(result.breakdown.family_similarity,
               result.breakdown.contact_similarity, result.confidence)
    /\ C5_OnGrid

\* en-de: the family similarity is 0.70, on the threshold, and the tier is high.
C5_Witness ==
  /\ Returned
  /\ lang1 = "en" /\ lang2 = "de"
  /\ result.breakdown.family_similarity = 700
  /\ result.confidence = "high"

(***************************************************************************)
(* C6. The strategy.                                                       *)
(***************************************************************************)
\* The strategy of the claim for family similarity f and contact similarity c.
C6_Strategy(f, c, strategy) ==
  /\ strategy = "cognate_recognition" <=> f >= 700
  /\ strategy = "borrowing_patterns" <=> (f < 700 /\ c >= 300)
  /\ strategy = "structural_comparison" <=> (f < 700 /\ c < 300 /\ f >= 300)
  /\ strategy = "conceptual_bridging" <=> (f < 300 /\ c < 300)

\* _determine_strategy on every pair of grid values, whatever the codes.
C6_OnGrid ==
  \A f, c \in C5_Grid : \A l1, l2 \in LanguageCodes :
    C6_Strategy(f, c, _determine_strategy(l1, l2, f, c))

\* C6: the strategy is decided in this order, first matching rule wins, from
\* family_similarity and contact_similarity only: family >= 0.70 gives
\* cognate_recognition; else contact >= 0.30 gives borrowing_patterns; else
\* family >= 0.30 gives structural_comparison; else conceptual_bridging.  The
\* language codes have no influence beyond these two values.
C6_StrategyOrder ==
  Returned =>
    /\ C6_Strategy(result.breakdown.family_similarity,
                   result.breakdown.contact_similarity, result.strategy)
    /\ C6_OnGrid

\* es-it: family 0.75 and contact 0.45 match the first two rules, and the
\* first wins.
C6_Witness ==
  /\ Returned
  /\ lang1 = "es" /\ lang2 = "it"
  /\ result.breakdown.family_similarity >= 700
  /\ result.breakdown.contact_similarity >= 300
  /\ result.strategy = "cognate_recognition"

(***************************************************************************)
(* C7. The range of the scores for a correlation in [-1,1] or absent.      *)
(***************************************************************************)
\* C7: for every pair of language codes, classified or not, and every
\* correlation in [-1,1] or absent, the result has 0 <= global <= 1 and
\* 0 <= local <= 1.
C7_ScoresInRange ==
  (Returned /\ (Absent \/ InRange)) =>
    /\ 0 <= result.global /\ result.global <= 100000
    /\ 0 <= result.local /\ result.local <= 100000

\* The two ends of the range: r = -1 on two unknown codes (global 0.045,
\* local 0.04), and r = 1 on hi-ur (local 0.885).
C7_Witness ==
  /\ Returned /\ InRange
  /\ \/ /\ systemsem_correlation = Some(0 - 100)
        /\ lang1 = "xx" /\ lang2 = "yy"
        /\ result.global = 4500 /\ result.local = 4000
     \/ /\ systemsem_correlation = Some(100)
        /\ lang1 = "hi" /\ lang2 = "ur"
        /\ result.local = 88500

(***************************************************************************)
(* C8. Every numeric output is capped to [0,1], whatever the correlation.  *)
(***************************************************************************)
\* C8: for every language pair and every correlation, those outside [-1,1]
\* included, score, global and local of the result lie in [0,1]; none is
\* negative.
C8_OutputsCapped ==
  Returned =>
    /\ 0 <= result.score /\ result.score <= 100000
    /\ 0 <= result.global /\ result.global <= 100000
    /\ 0 <= result.local /\ result.local <= 100000

(***************************************************************************)
(* C9. A correlation outside [-1,1] is clamped first.                      *)
(***************************************************************************)
\* The correlation clamped to [-1,1].
C9_Clamped(correlation) ==
  IF correlation = None THEN None
  ELSE IF correlation.value > 100 THEN Some(100)
  ELSE IF correlation.value < 0 - 100 THEN Some(0 - 100)
  ELSE correlation

\* C9: the result for r > 1 equals the result for r = 1 and the result for
\* r < -1 equals the result for r = -1, so that the semantic_base of the
\* breakdown always lies in [0,1].
C9_CorrelationClamped ==
  Returned =>
    /\ result = CompositeResult(lang1, lang2, C9_Clamped(systemsem_correlation))
    /\ 0 <= result.breakdown.semantic_base
    /\ result.breakdown.semantic_base <= 1000

(***************************************************************************)
(* C10. Unknown language codes.                                            *)
(***************************************************************************)
\* C10: the call completes for every pair of codes, known or not; when either
\* code is not in the family table the family similarity is 0.1; and for two
\* unknown codes with the correlation absent the confidence is low and the
\* strategy is conceptual_bridging.
C10_UnknownCodes ==
  /\ pc = "call" => ENABLED calculate_composite_similarity
  /\ Returned =>
       /\ result # None
       /\ (lang1 \notin DOMAIN language_families \/ lang2 \notin DOMAIN language_families) =>
            result.breakdown.family_similarity = 100
       /\ (lang1 \notin DOMAIN language_families /\ lang2 \notin DOMAIN language_families
           /\ Absent) =>
            /\ result.confidence = "low"
            /\ result.strategy = "conceptual_bridging"

\* score("xx", "yy", absent).
C10_Witness ==
  /\ Returned /\ Absent
  /\ lang1 = "xx" /\ lang2 = "yy"
  /\ lang1 \notin DOMAIN language_families /\ lang2 \notin DOMAIN language_families
  /\ result.breakdown.family_similarity = 100
  /\ result.confidence = "low"
  /\ result.strategy = "conceptual_bridging"
(***************************************************************************)
(* C11. The bonus lookups do not depend on the order of the arguments.     *)
(***************************************************************************)
\* C11: for every pair of codes (a,b), the contact similarity of (a,b) equals
\* that of (b,a) and the cultural similarity of (a,b) equals that of (b,a),
\* although each table stores one direction only of a pair.
C11_BonusSymmetric ==
  Returned =>
    /\ result.breakdown.contact_similarity = _calculate_contact_similarity_fixed(lang2, lang1)
    /\ result.breakdown.cultural_similarity = _calculate_cultural_similarity_fixed(lang2, lang1)
    /\ \A key \in DOMAIN historical_contacts : <<key[2], key[1]>> \notin DOMAIN historical_contacts
    /\ \A key \in DOMAIN cultural_proximities : <<key[2], key[1]>> \notin DOMAIN cultural_proximities

\* it-es: the tables hold es-it only, and the lookup finds it.
C11_Witness ==
  /\ Returned
  /\ lang1 = "it" /\ lang2 = "es"
  /\ <<lang1, lang2>> \notin DOMAIN historical_contacts
  /\ <<lang2, lang1>> \in DOMAIN historical_contacts
  /\ result.breakdown.contact_similarity = 450
  /\ result.breakdown.cultural_similarity = 400

(***************************************************************************)
(* C12. The defaults of the bonus lookups.                                 *)
(***************************************************************************)
\* The pair of the call has no entry, in either direction, in the table.
C12_NoEntry(table) ==
  <<lang1, lang2>> \notin DOMAIN table /\ <<lang2, lang1>> \notin DOMAIN table

\* C12, as stated: for every pair with no entry in either direction, the
\* contact bonus is 0.0 and the cultural bonus is 0.0.
C12_DefaultsZero ==
  Returned =>
    /\ C12_NoEntry(historical_contacts) => result.breakdown.contact_similarity = 0
    /\ C12_NoEntry(cultural_proximities) => result.breakdown.cultural_similarity = 0

\* C12, amended: for every pair with no entry in either direction, the lookup
\* completes; the contact bonus is 0.0 and the cultural bonus is 0.1.
C12_DefaultsOfTheCode ==
  Returned =>
    /\ C12_NoEntry(historical_contacts) => result.breakdown.contact_similarity = 0
    /\ C12_NoEntry(cultural_proximities) => result.breakdown.cultural_similarity = 100

\* es-pt has no entry in either table.
C12_Witness ==
  /\ Returned
  /\ lang1 = "es" /\ lang2 = "pt"
  /\ C12_NoEntry(historical_contacts) /\ C12_NoEntry(cultural_proximities)
  /\ result.breakdown.contact_similarity = 0
  /\ result.breakdown.cultural_similarity = 100

(***************************************************************************)
(* C13. The scores are monotone in the correlation.                        *)
(***************************************************************************)
\* The result of the same pair with the correlation r2.
C13_With(r2) == CompositeResult(lang1, lang2, Some(r2))

\* C13: for every language pair and every two supplied correlations
\* r1 <= r2, global(r1) <= global(r2) and local(r1) <= local(r2).  The call
\* with r1 is compared with the next correlation of the grid (which gives
\* every r2 >= r1 by transitivity) and with the largest one.
C13_Monotone ==
  (Returned /\ ~Absent) =>
    \A r2 \in {Min(systemsem_correlation.value + 1, MaxCorr), MaxCorr} :
      /\ result.global <= C13_With(r2).global
      /\ result.local <= C13_With(r2).local

\* es-it at r1 = 0.57 and r2 = 0.58: the scores grow strictly.
C13_Witness ==
  /\ Returned
  /\ lang1 = "es" /\ lang2 = "it" /\ systemsem_correlation = Some(57)
  /\ result.global < C13_With(58).global
  /\ result.local < C13_With(58).local

(***************************************************************************)
(* C14, C15. Scenario 1: calculate_composite_similarity("es", "it", 0.58). *)
(***************************************************************************)
Scenario1 ==
  Returned /\ lang1 = "es" /\ lang2 = "it" /\ systemsem_correlation = Some(58)

\* A score rounded to three decimals, in thousandths.
Round3(score) == (score + 50) \div 100

C15_Scenario1Stated ==
  Scenario1 =>
    /\ result.confidence = "medium-high"
    /\ result.strategy = "borrowing_patterns"

\* C15, amended: the family similarity, 0.75, is at least 0.70, which the
\* first rule of both tables matches: the confidence is high and the
\* strategy is cognate_recognition.
C15_Scenario1Labels ==
  Scenario1 =>
    /\ result.breakdown.family_similarity >= 700
    /\ result.confidence = "high"
    /\ result.strategy = "cognate_recognition"

C15_Witness ==
  /\ Scenario1
  /\ result.breakdown.contact_similarity = 450
  /\ result.confidence = "high"
  /\ result.strategy = "cognate_recognition"

(***************************************************************************)
(* C16. Scenario 2: calculate_composite_similarity("hi", "ur").            *)
(***************************************************************************)
Scenario2 ==
  Returned /\ lang1 = "hi" /\ lang2 = "ur" /\ Absent

\* C16: with the correlation absent, hi-ur has semantic_base = 0.60, the
\* same_sub_branch value of Indo-Aryan as family similarity,
\* contact_similarity = 0.65, confidence = high and
\* strategy = cognate_recognition.
C16_Scenario2 ==
  Scenario2 =>
    /\ result.breakdown.semantic_base = 600
    /\ result.breakdown.family_similarity =
         family_similarity_baselines["Indo-Aryan"].same_sub_branch
    /\ result.breakdown.contact_similarity = 650
    /\ result.confidence = "high"
    /\ result.strategy = "cognate_recognition"

C16_Witness ==
  /\ Scenario2
  /\ result.breakdown.family_similarity = 800
  /\ result.confidence = "high"
  /\ result.strategy = "cognate_recognition"
\* ---------------------------------------------------------------------------
\* CorrelationProcessor (correlation_processor.py).  Its composite_calculator
\* is the calculator of composite_similarity_calculator.py, the module the
\* processor imports it from; a pair's record is CompositeResult.
\* ---------------------------------------------------------------------------

\* f"{lang1}-{lang2}": the key of a pair in the mapping of similarities.
Key(l1, l2) == l1 \o "-" \o l2

\* similarities[key] = value on a dict.
DictSet(d, key, value) ==
  [k \in DOMAIN d \cup {key} |-> IF k = key THEN value ELSE d[k]]

\* The curated list of _add_high_confidence_pairs, in its order.
important_pairs ==
  << <<"es", "it">>, <<"es", "pt">>, <<"fr", "es">>, <<"en", "de">>,
     <<"it", "fr">>, <<"ru", "pl">>, <<"hi", "ur">> >>

\* Faulty variant of AddPair: only the key of the listed direction is looked up.
MutAddPairKey1Only(similarities, pair) ==
  LET key1 == Key(pair[1], pair[2])
  IN  IF key1 \notin DOMAIN similarities
        THEN DictSet(similarities, key1, CompositeResult(pair[1], pair[2], None))
        ELSE similarities

\* Faulty variant of AddPair: a pair present in one direction only gets the
\* other direction added.
MutAddPairBothDirections(similarities, pair) ==
  LET key1 == Key(pair[1], pair[2])
      key2 == Key(pair[2], pair[1])
  IN  IF key1 \notin DOMAIN similarities
        THEN DictSet(similarities, key1, CompositeResult(pair[1], pair[2], None))
        ELSE IF key2 \notin DOMAIN similarities
               THEN DictSet(similarities, key2, CompositeResult(pair[2], pair[1], None))
               ELSE similarities

\* The body of the loop of _add_high_confidence_pairs for one listed pair: the
\* pair is scored without a correlation and stored under key1 when neither
\* direction is a key of the mapping.
AddPair(similarities, pair) ==
  LET key1 == Key(pair[1], pair[2])
      key2 == Key(pair[2], pair[1])
  IN  IF key1 \notin DOMAIN similarities /\ key2 \notin DOMAIN similarities
        THEN DictSet(similarities, key1, CompositeResult(pair[1], pair[2], None))
        ELSE similarities

\* The loop of _add_high_confidence_pairs from the i-th listed pair on.
RECURSIVE AddPairsFrom(_, _)
AddPairsFrom(similarities, i) ==
  IF i > Len(important_pairs)
    THEN similarities
    ELSE AddPairsFrom(AddPair(similarities, important_pairs[i]), i + 1)

\* The mapping _add_high_confidence_pairs leaves behind.
AddHighConfidencePairs(similarities) == AddPairsFrom(similarities, 1)

\* Base mappings handed to the expander: any subset of these pairs, each scored
\* from one of these correlations.  es-it is listed, it-es and es-fr are the
\* reverse of a listed pair, hi-ur is listed, en-zh is not listed.
MaxExpansions == 2
BasePairs ==
  {<<"es", "it">>, <<"it", "es">>, <<"es", "fr">>, <<"hi", "ur">>, <<"en", "zh">>}
BaseCorrelations == {58, -30}

BaseMapping(pairs, correlation) ==
  [k \in {Key(p[1], p[2]) : p \in pairs} |->
     LET p == CHOOSE q \in pairs : Key(q[1], q[2]) = k
     IN  CompositeResult(p[1], p[2], Some(correlation[p]))]

BaseMappings ==
  {BaseMapping(pairs, correlation) :
     pairs \in SUBSET BasePairs, correlation \in [BasePairs -> BaseCorrelations]}

\* No call of the calculator is in progress.
CalculatorIdle ==
  /\ lang1 = None
  /\ lang2 = None
  /\ systemsem_correlation = None
  /\ result = None
  /\ pc = "idle"
  /\ history = <<>>

\* The calculator the processor constructs.
CalculatorTables ==
  /\ language_families = LanguageFamiliesTable
  /\ historical_contacts = HistoricalContactsTable
  /\ family_similarity_baselines = FamilySimilarityBaselinesTable

InitExpander ==
  /\ CalculatorTables
  /\ CalculatorIdle
  /\ raw_correlations = <<>>
  /\ composite_similarities \in BaseMappings
  /\ memoria_format = None
  /\ expansions = 0
  /\ correlation_files = <<>>
  /\ next_file = 1
  /\ ppc = "expander"

\* One call of _add_high_confidence_pairs on the mapping.
_add_high_confidence_pairs ==
  /\ ppc = "expander"
  /\ expansions < MaxExpansions
  /\ composite_similarities' = AddHighConfidencePairs(composite_similarities)
  /\ expansions' = expansions + 1
  /\ UNCHANGED <<tables, call, files, raw_correlations, memoria_format, ppc>>

NextExpander == _add_high_confidence_pairs

SpecExpander == InitExpander /\ [][NextExpander]_vars

\* The listed pairs.
ImportantPairs == {important_pairs[i] : i \in DOMAIN important_pairs}

\* The mapping has an entry for the pair in one direction or the other.
Holds(similarities, pair) ==
  \/ Key(pair[1], pair[2]) \in DOMAIN similarities
  \/ Key(pair[2], pair[1]) \in DOMAIN similarities

\* C17: a call of the expander leaves every entry of the mapping, for a listed
\* pair or not, in place with its record, and adds no key in either direction
\* for a listed pair the mapping already held in one direction.
C17_NeverOverwrites ==
  [][ /\ \A k \in DOMAIN composite_similarities :
           /\ k \in DOMAIN composite_similarities'
           /\ composite_similarities'[k] = composite_similarities[k]
      /\ \A pair \in ImportantPairs :
           Holds(composite_similarities, pair) =>
             \A k \in {Key(pair[1], pair[2]), Key(pair[2], pair[1])} :
               k \in DOMAIN composite_similarities' => k \in DOMAIN composite_similarities
    ]_vars

\* C17's case: the expander ran on a mapping holding it-es (the reverse of a
\* listed pair) from a correlation and en-zh; it-es and en-zh keep their
\* records, es-it was not added, and the missing listed pairs were.
C17_Witness ==
  /\ expansions = 1
  /\ "it-es" \in DOMAIN composite_similarities
  /\ "es-it" \notin DOMAIN composite_similarities
  /\ "en-zh" \in DOMAIN composite_similarities
  /\ composite_similarities["it-es"] = CompositeResult("it", "es", Some(58))
  /\ "es-pt" \in DOMAIN composite_similarities

\* C19: a second call of the expander changes nothing: the mapping after two
\* calls has the keys and the records of the mapping after one.
C19_Idempotent ==
  [][ expansions >= 1 => composite_similarities' = composite_similarities ]_vars

\* C19's case: the expander was called twice on a mapping that lacked listed
\* pairs, and the pairs the first call added are there.
C19_Witness ==
  /\ expansions = 2
  /\ "it-es" \in DOMAIN composite_similarities
  /\ "ru-pl" \in DOMAIN composite_similarities
  /\ composite_similarities["ru-pl"] = CompositeResult("ru", "pl", None)
\* config.LANGUAGE_MAPPING: the three-letter codes of the data set and their
\* two-letter codes.
LANGUAGE_MAPPING ==
  [ARA |-> "ar", BEN |-> "bn", BUL |-> "bg", CHI |-> "zh", DUT |-> "nl",
   ENG |-> "en", FAS |-> "fa", FRE |-> "fr", GER |-> "de", GRE |-> "el",
   GUJ |-> "gu", HIN |-> "hi", IBO |-> "ig", IND |-> "id", ITA |-> "it",
   JPN |-> "ja", KAN |-> "kn", KOR |-> "ko", MAL |-> "ml", MAR |-> "mr",
   NEP |-> "ne", PAN |-> "pa", POL |-> "pl", POR |-> "pt", RUM |-> "ro",
   RUS |-> "ru", SPA |-> "es", TAM |-> "ta", TEL |-> "te", TGL |-> "tl",
   THA |-> "th", TUR |-> "tr", URD |-> "ur", VIE |-> "vi", YOR |-> "yo"]

\* The language codes of the raw keys: the two- or three-letter alphabetic
\* parts of a file name, in any case.
RawCodes == {"SPA", "ITA", "ENG", "GER", "ita", "es", "XX"}

\* str.upper() and str.lower() on the codes of the model.
Upper ==
  [SPA |-> "SPA", ITA |-> "ITA", ENG |-> "ENG", GER |-> "GER", ita |-> "ITA",
   XX |-> "XX", es |-> "ES", it |-> "IT", pt |-> "PT", fr |-> "FR", ro |-> "RO",
   en |-> "EN", de |-> "DE", nl |-> "NL", ru |-> "RU", pl |-> "PL", hi |-> "HI",
   ur |-> "UR", zh |-> "ZH", xx |-> "XX", yy |-> "YY"]

Lower ==
  [SPA |-> "spa", ITA |-> "ita", ENG |-> "eng", GER |-> "ger", ita |-> "ita",
   es |-> "es", XX |-> "xx"]

\* f"{lang1}_{lang2}": the key of a pair in the raw correlations.
RawKey(l1, l2) == l1 \o "_" \o l2

\* pair_key.split('_') on a raw key.
Split(pair_key) ==
  CHOOSE p \in RawCodes \X RawCodes : RawKey(p[1], p[2]) = pair_key

\* config.LANGUAGE_MAPPING.get(lang.upper(), lang.lower())
StdCode(lang) == Get(LANGUAGE_MAPPING, Upper[lang], Lower[lang])

\* pair_key.upper() on a key of the mapping of similarities.
KeyUpper(pair_key) ==
  LET p == CHOOSE q \in LanguageCodes \X LanguageCodes : Key(q[1], q[2]) = pair_key
  IN  Key(Upper[p[1]], Upper[p[2]])

\* The loop of _generate_composite_similarities from the i-th raw item on:
\* the pair is scored from its correlation and stored under its standard key.
RECURSIVE ConvertFrom(_, _, _)
ConvertFrom(similarities, raw, i) ==
  IF i > Len(raw)
    THEN similarities
    ELSE LET codes == Split(raw[i].pair_key)
             std_lang1 == StdCode(codes[1])
             std_lang2 == StdCode(codes[2])
             composite_result ==
               CompositeResult(std_lang1, std_lang2, Some(raw[i].correlation))
         IN  ConvertFrom(DictSet(similarities, Key(std_lang1, std_lang2), composite_result),
                         raw, i + 1)

\* The mapping _generate_composite_similarities returns: the converted raw
\* correlations, then the listed pairs that are missing.
GenerateCompositeSimilarities(raw) ==
  AddHighConfidencePairs(ConvertFrom(<<>>, raw, 1))

\* Python's KeyError for a missing key of a dict.
KeyError(key) == [exception |-> "KeyError", key |-> key]

\* The fields _format_for_memoria reads from a record, in the order it reads them.
FormatterReads ==
  <<"global", "local", "confidence", "strategy", "breakdown", "evidence_sources">>

\* The record _format_for_memoria builds from one record of the mapping, or the
\* KeyError of the first field the record lacks.
FormatRecord(similarity_data) ==
  LET missing == {i \in DOMAIN FormatterReads :
                    FormatterReads[i] \notin DOMAIN similarity_data}
  IN  IF missing # {}
        THEN KeyError(FormatterReads[CHOOSE i \in missing : \A j \in missing : i <= j])
        ELSE [global |-> similarity_data.global,
              local |-> similarity_data.local,
              confidence |-> similarity_data.confidence,
              strategy |-> similarity_data.strategy,
              breakdown |-> similarity_data.breakdown,
              evidence |-> similarity_data.evidence_sources]

IsKeyError(value) == DOMAIN value = {"exception", "key"}

\* What _format_for_memoria does on a mapping: it returns the formatted
\* records under the uppercased keys, or raises the KeyError of the first
\* record it cannot format.
FormatForMemoria(similarities) ==
  LET failing == {k \in DOMAIN similarities : IsKeyError(FormatRecord(similarities[k]))}
  IN  IF failing # {}
        THEN FormatRecord(similarities[CHOOSE k \in failing : TRUE])
        ELSE [K \in {KeyUpper(k) : k \in DOMAIN similarities} |->
                FormatRecord(similarities[CHOOSE k \in DOMAIN similarities : KeyUpper(k) = K])]
\* The raw correlations process() extracts: a dict of at most MaxRaw items, in
\* insertion order, a key per pair of file-name codes.
MaxRaw == 2
RawPairs ==
  {<<"SPA", "ITA">>, <<"ita", "SPA">>, <<"es", "ITA">>, <<"ENG", "GER">>, <<"XX", "ENG">>}
RawItems ==
  {[pair_key |-> RawKey(p[1], p[2]), correlation |-> r] :
     p \in RawPairs, r \in BaseCorrelations}
RawDicts ==
  {raw \in UNION {[1..n -> RawItems] : n \in 0..MaxRaw} :
     \A i, j \in DOMAIN raw : raw[i].pair_key = raw[j].pair_key => i = j}

InitProcess ==
  /\ CalculatorTables
  /\ CalculatorIdle
  /\ raw_correlations \in RawDicts
  /\ composite_similarities = None
  /\ memoria_format = None
  /\ expansions = 0
  /\ correlation_files = <<>>
  /\ next_file = 1
  /\ ppc = "extracted"

\* Step 2 of process(): the raw correlations are converted and the expander
\* is called on the result.
_generate_composite_similarities ==
  /\ ppc = "extracted"
  /\ composite_similarities' = GenerateCompositeSimilarities(raw_correlations)
  /\ expansions' = expansions + 1
  /\ ppc' = "generated"
  /\ UNCHANGED <<tables, call, files, raw_correlations, memoria_format>>

\* Step 3 of process(), or a call of _format_for_memoria on a mapping: the
\* formatter returns the published mapping or raises.
_format_for_memoria ==
  /\ ppc = "generated"
  /\ memoria_format' = FormatForMemoria(composite_similarities)
  /\ ppc' = IF IsKeyError(FormatForMemoria(composite_similarities))
              THEN "raised" ELSE "returned"
  /\ UNCHANGED <<tables, call, files, raw_correlations, composite_similarities, expansions>>

NextProcess == _generate_composite_similarities \/ _format_for_memoria

SpecProcess == InitProcess /\ [][NextProcess]_vars

\* A call of _format_for_memoria on a mapping of records of the calculator.
InitFormatter ==
  /\ CalculatorTables
  /\ CalculatorIdle
  /\ raw_correlations = <<>>
  /\ composite_similarities \in BaseMappings
  /\ memoria_format = None
  /\ expansions = 0
  /\ correlation_files = <<>>
  /\ next_file = 1
  /\ ppc = "generated"

NextFormatter == _format_for_memoria

SpecFormatter == InitFormatter /\ [][NextFormatter]_vars

\* The formatter has finished, one way or the other.
Formatted == ppc \in {"returned", "raised"}

\* C20: on every mapping of records of the calculator the formatter returns,
\* and what it returns holds, under the uppercased key of every entry, a record
\* with an evidence tag and the calculator's global, local, confidence,
\* strategy and breakdown.
C20_FormatterTotal ==
  Formatted =>
    /\ ppc = "returned"
    /\ \A k \in DOMAIN composite_similarities :
         /\ KeyUpper(k) \in DOMAIN memoria_format
         /\ "evidence" \in DOMAIN memoria_format[KeyUpper(k)]
         /\ \A field \in {"global", "local", "confidence", "strategy", "breakdown"} :
              memoria_format[KeyUpper(k)][field] = composite_similarities[k][field]

\* C18: whatever the raw correlations, process() returns a mapping that holds
\* each listed pair in one direction or the other, and an entry that does not
\* come from a raw correlation has semantic_base 0.60.
C18_PublishedHoldsImportantPairs ==
  Formatted =>
    /\ ppc = "returned"
    /\ \A pair \in ImportantPairs :
         \/ KeyUpper(Key(pair[1], pair[2])) \in DOMAIN memoria_format
         \/ KeyUpper(Key(pair[2], pair[1])) \in DOMAIN memoria_format
    /\ \A k \in DOMAIN composite_similarities \ DOMAIN ConvertFrom(<<>>, raw_correlations, 1) :
         memoria_format[KeyUpper(k)].breakdown.semantic_base = SemanticDefault
\* ---------------------------------------------------------------------------
\* Further properties of the calculator and of the processor.
\* ---------------------------------------------------------------------------

\* A score is a whole number of thousandths.
Rounded3(score) == score % 100 = 0

\* C21: every number the processor publishes for a pair is rounded to 3
\* decimal places.  The formatter copies global and local from the
\* calculator's record as they are, so the record's global and local are whole
\* numbers of thousandths.
C21_RoundedTo3Places ==
  Returned =>
    /\ Rounded3(result.global)
    /\ Rounded3(result.local)

\* C22: for every pair and every correlation that is absent or in [-1,1], the
\* local score is at least the global score.
C22_LocalAtLeastGlobal ==
  Returned /\ (Absent \/ InRange) => result.local >= result.global

\* C22, as the code has it: for every pair and every correlation that is
\* absent or in [0,1], the local score is at least the global score.
C22_LocalAtLeastGlobalFromZero ==
  Returned /\ (Absent \/ (InRange /\ systemsem_correlation.value >= 0)) =>
    result.local >= result.global

\* hi-ur, the pair with the largest bonuses, at correlation 0: local 0.635,
\* global 0.6275.
C22_Witness ==
  /\ Returned
  /\ lang1 = "hi" /\ lang2 = "ur"
  /\ systemsem_correlation = Some(0)
  /\ result.local = 63500
  /\ result.global = 62750

\* C27: for every pair of codes (a,b) and every correlation, the call on (a,b)
\* and the call on (b,a) return the same global, local, confidence, strategy
\* and breakdown.
C27_ScoreSymmetric ==
  Returned =>
    \A field \in {"global", "local", "confidence", "strategy", "breakdown"} :
      result[field] = CompositeResult(lang2, lang1, systemsem_correlation)[field]

\* fr-it with a correlation: both bonus tables hold it-fr only, and the two
\* languages are of one branch.
C27_Witness ==
  /\ Returned
  /\ lang1 = "fr" /\ lang2 = "it"
  /\ systemsem_correlation = Some(58)
  /\ <<lang1, lang2>> \notin DOMAIN cultural_proximities
  /\ <<lang2, lang1>> \in DOMAIN cultural_proximities
  /\ result.breakdown.cultural_similarity = 380
  /\ result.confidence = "high"

\* C26: every entry a call of the expander adds to the mapping has
\* confidence high.
C26_InsertedAreHigh ==
  [][ \A k \in DOMAIN composite_similarities' \ DOMAIN composite_similarities :
        composite_similarities'[k].confidence = "high" ]_vars
\* ---------------------------------------------------------------------------
\* A calculator serving several calls, one after the other.
\* ---------------------------------------------------------------------------
MaxCalls == 3
CallCodes == {"es", "it", "zh"}
CallCorrelations == {None, Some(58)}

InitCalls ==
  /\ CalculatorTables
  /\ lang1 \in CallCodes
  /\ lang2 \in CallCodes
  /\ systemsem_correlation \in CallCorrelations
  /\ result = None
  /\ pc = "call"
  /\ history = <<>>
  /\ raw_correlations = <<>>
  /\ composite_similarities = None
  /\ memoria_format = None
  /\ expansions = 0
  /\ correlation_files = <<>>
  /\ next_file = 1
  /\ ppc = "idle"

\* The caller makes its next call, with any arguments.
next_call ==
  /\ pc = "done"
  /\ Len(history) < MaxCalls
  /\ lang1' \in CallCodes
  /\ lang2' \in CallCodes
  /\ systemsem_correlation' \in CallCorrelations
  /\ result' = None
  /\ pc' = "call"
  /\ UNCHANGED <<tables, history, processor>>

NextCalls == calculate_composite_similarity \/ next_call

SpecCalls == InitCalls /\ [][NextCalls]_vars

C28_OneEntryPerPair ==
  ppc = "generated" =>
    \A a, b \in LanguageCodes :
      a # b => ~ (/\ Key(a, b) \in DOMAIN composite_similarities
                  /\ Key(b, a) \in DOMAIN composite_similarities)
\* ---------------------------------------------------------------------------
\* The extraction of the raw correlations from the correlation files
\* (_extract_systemsem_correlations).  A file is its name, split at '_' with
\* the '.csv' removed, whether pandas can read it, its number of columns and
\* its rows; the correlation column is numeric.
\* ---------------------------------------------------------------------------
MaxFiles == 2
MaxRows == 3

\* len(part) and part.isalpha() of the parts of the file names of the model.
PartLen ==
  [pairwise |-> 8, semantics |-> 9, correlations |-> 12,
   SPA |-> 3, ITA |-> 3, ENG |-> 3, GER |-> 3, v2 |-> 2]
PartIsAlpha ==
  [pairwise |-> TRUE, semantics |-> TRUE, correlations |-> TRUE,
   SPA |-> TRUE, ITA |-> TRUE, ENG |-> TRUE, GER |-> TRUE, v2 |-> FALSE]

IsLangCode(part) == PartLen[part] \in {2, 3} /\ PartIsAlpha[part]

\* extract_language_pair: the last two parts of the name that look like
\* language codes (as Some(code)), or (None, None).
extract_language_pair(parts) ==
  LET lang_codes == SelectSeq(parts, IsLangCode)
  IN  IF Len(lang_codes) >= 2
        THEN <<Some(lang_codes[Len(lang_codes) - 1]), Some(lang_codes[Len(lang_codes)])>>
        ELSE <<None, None>>

\* The empty DataFrame.
EmptyFrame == [columns |-> 0, rows |-> <<>>]

\* An exception of pandas.
PandasError(name) == [exception |-> name]
IsPandasError(value) == DOMAIN value = {"exception"}

\* pd.read_csv(file_path, header=None, ...): the frame of the file, or the
\* error of a file that cannot be decoded or parsed or that has no data.
pd_read_csv(file) ==
  IF ~ file.readable THEN PandasError("ParserError")
  ELSE IF file.rows = <<>> THEN PandasError("EmptyDataError")
  ELSE [columns |-> file.columns, rows |-> file.rows]

\* read_csv_safe: the frame pandas reads if it is not empty and has 3 to 5
\* columns (the 5 names fit); an error of any strategy is caught, and a file
\* no strategy reads ends in the empty frame.
read_csv_safe(file) ==
  LET df == pd_read_csv(file)
  IN  IF IsPandasError(df) THEN EmptyFrame
      ELSE IF df.rows # <<>> /\ df.columns >= 3 /\ df.columns <= 5 THEN df
      ELSE EmptyFrame

RECURSIVE SumCorrelation(_)
SumCorrelation(rows) ==
  IF rows = <<>> THEN 0 ELSE Head(rows).correlation + SumCorrelation(Tail(rows))

\* Series.mean() of the correlation column.
MeanCorrelation(rows) ==
  LET total == SumCorrelation(rows)
  IN  IF total >= 0 THEN total \div Len(rows) ELSE 0 - ((0 - total) \div Len(rows))

IsLocal(row) == row.type = "local"
IsCluster10(row) == row.cluster_count = 10

\* Faulty variant: the 10-cluster row is looked for among all the rows.
MutExtractCluster10First(df) ==
  IF df.columns >= 3
    THEN LET local_df == SelectSeq(df.rows, IsLocal)
             cluster_10_df == SelectSeq(df.rows, IsCluster10)
         IN  IF local_df = <<>> THEN None
             ELSE IF cluster_10_df # <<>>
               THEN Some(cluster_10_df[1].correlation)
               ELSE Some(MeanCorrelation(local_df))
    ELSE None

\* _extract_local_correlation
_extract_local_correlation(df) ==
  IF df.columns >= 3
    THEN LET local_df == SelectSeq(df.rows, IsLocal)
             cluster_10_df == SelectSeq(local_df, IsCluster10)
         IN  IF local_df = <<>> THEN None
             ELSE IF cluster_10_df # <<>>
               THEN Some(cluster_10_df[1].correlation)
               ELSE Some(MeanCorrelation(local_df))
    ELSE None

\* correlations[pair_key] = value on the dict of raw correlations: a new key
\* goes to the end, a key already there keeps its place.
RawSet(raw, pair_key, value) ==
  IF \E i \in DOMAIN raw : raw[i].pair_key = pair_key
    THEN [i \in DOMAIN raw |->
            IF raw[i].pair_key = pair_key
              THEN [pair_key |-> pair_key, correlation |-> value]
              ELSE raw[i]]
    ELSE Append(raw, [pair_key |-> pair_key, correlation |-> value])

\* Faulty variant: the languages of the name are not tested.
MutProcessFileNoPairTest(file, correlations) ==
  LET df == read_csv_safe(file)
      pair == extract_language_pair(file.parts)
      local_correlation == _extract_local_correlation(df)
  IN  IF df.rows = <<>> THEN correlations
      ELSE IF local_correlation # None
        THEN RawSet(correlations,
                    IF pair[1] = None THEN "None_None"
                                      ELSE RawKey(pair[1].value, pair[2].value),
                    local_correlation.value)
        ELSE correlations

\* The dict of raw correlations after _process_correlation_file on a file.
ProcessCorrelationFile(file, correlations) ==
  LET df == read_csv_safe(file)
      pair == extract_language_pair(file.parts)
      local_correlation == _extract_local_correlation(df)
  IN  IF df.rows = <<>> THEN correlations
      ELSE IF pair[1] = None \/ pair[2] = None THEN correlations
      ELSE IF local_correlation # None
        THEN RawSet(correlations, RawKey(pair[1].value, pair[2].value),
                    local_correlation.value)
        ELSE correlations
\* The names of the files: two with a pair of languages, one with one code.
FileNames ==
  {<<"pairwise", "semantics", "correlations", "SPA", "ITA">>,
   <<"pairwise", "semantics", "correlations", "ENG", "GER">>,
   <<"pairwise", "semantics", "correlations", "SPA", "v2">>}

Row(cluster_count, type, correlation) ==
  [cluster_count |-> cluster_count, type |-> type, correlation |-> correlation]

\* The contents of the files: local rows with a 10-cluster row behind other
\* rows, local rows without one (two means), global rows only, no rows.
FileRows ==
  {<<Row(5, "local", 12), Row(10, "global", 60), Row(10, "local", -36)>>,
   <<Row(5, "local", 12), Row(10, "global", -36), Row(20, "local", 60)>>,
   <<Row(20, "local", 24)>>,
   <<Row(10, "global", 60), Row(5, "global", 12)>>,
   <<>>}

\* The files: every name with every content in 5 columns, and with the first
\* content unreadable or in 2 or 6 columns.
Files ==
  {[parts |-> name, readable |-> TRUE, columns |-> 5, rows |-> rows] :
     name \in FileNames, rows \in FileRows}
  \cup {[parts |-> name, readable |-> readable, columns |-> columns,
         rows |-> <<Row(5, "local", 12), Row(10, "global", 60), Row(10, "local", -36)>>] :
          name \in FileNames,
          readable \in BOOLEAN, columns \in {2, 5, 6}}

InitExtract ==
  /\ CalculatorTables
  /\ CalculatorIdle
  /\ raw_correlations = <<>>
  /\ composite_similarities = None
  /\ memoria_format = None
  /\ expansions = 0
  /\ correlation_files \in UNION {[1..n -> Files] : n \in 0..MaxFiles}
  /\ next_file = 1
  /\ ppc = "extracting"

\* One round of the loop of _extract_systemsem_correlations: the call of
\* _process_correlation_file on the next file.
_process_correlation_file ==
  /\ ppc = "extracting"
  /\ next_file <= Len(correlation_files)
  /\ raw_correlations' =
       ProcessCorrelationFile(correlation_files[next_file], raw_correlations)
  /\ next_file' = next_file + 1
  /\ UNCHANGED <<tables, call, composite_similarities, memoria_format, expansions,
                 correlation_files, ppc>>

NextExtract == _process_correlation_file

SpecExtract == InitExtract /\ [][NextExtract]_vars
\* The rows of type local, and those of them with cluster_count 10.
LocalRows(rows) == {i \in DOMAIN rows : rows[i].type = "local"}
Local10Rows(rows) == {i \in LocalRows(rows) : rows[i].cluster_count = 10}

RECURSIVE SumOfLocal(_, _)
SumOfLocal(rows, n) ==
  IF n = 0 THEN 0
  ELSE SumOfLocal(rows, n - 1) + (IF n \in LocalRows(rows) THEN rows[n].correlation ELSE 0)

\* The value is the one the rows determine: that of the first local row with
\* cluster_count 10 if there is one, else the mean of the local rows, and no
\* value if there is no local row.
Chosen(rows, value) ==
  IF Local10Rows(rows) # {}
    THEN value = Some(rows[CHOOSE i \in Local10Rows(rows) :
                             \A j \in Local10Rows(rows) : i <= j].correlation)
  ELSE IF LocalRows(rows) = {}
    THEN value = None
  ELSE /\ value # None
       /\ value.value * Cardinality(LocalRows(rows)) = SumOfLocal(rows, Len(rows))

\* All contents of at most MaxRows rows.
RowUniverse ==
  {Row(cluster_count, type, correlation) :
     cluster_count \in {5, 10}, type \in {"local", "global"}, correlation \in {-36, 12, 60}}
Contents == UNION {[1..n -> RowUniverse] : n \in 0..MaxRows}

C24_OnEveryContent ==
  \A rows \in Contents :
    Chosen(rows, _extract_local_correlation([columns |-> 5, rows |-> rows]))

\* The file can be read to a frame and its name gives a pair of languages.
HasFrameAndPair(file) ==
  /\ file.readable
  /\ file.rows # <<>>
  /\ file.columns >= 3 /\ file.columns <= 5
  /\ extract_language_pair(file.parts)[1] # None

\* The key of the pair of languages of a file name.
NameKey(file) ==
  RawKey(extract_language_pair(file.parts)[1].value,
         extract_language_pair(file.parts)[2].value)

\* C24: the correlation taken from a file is chosen among its local rows only:
\* the value of the first local row with cluster_count 10 if there is one, else
\* the mean of all local rows; a file with no local rows yields no value and
\* leaves the mapping as it is.
C24_LocalRowsOnly ==
  [][ LET file == correlation_files[next_file]
      IN  /\ C24_OnEveryContent
          /\ HasFrameAndPair(file) =>
               IF LocalRows(file.rows) = {}
                 THEN raw_correlations' = raw_correlations
                 ELSE \E i \in DOMAIN raw_correlations' :
                        /\ raw_correlations'[i].pair_key = NameKey(file)
                        /\ Chosen(file.rows, Some(raw_correlations'[i].correlation))
    ]_vars

\* Two files were processed: SPA_ITA with a local 10-cluster row behind a
\* local 5-cluster row and a global 10-cluster row gave -0.36, ENG_GER with
\* local rows 0.12 and 0.60 and no 10-cluster local row gave their mean 0.36.
C24_Witness ==
  /\ next_file = 3
  /\ correlation_files[1].rows =
       <<Row(5, "local", 12), Row(10, "global", 60), Row(10, "local", -36)>>
  /\ correlation_files[2].rows =
       <<Row(5, "local", 12), Row(10, "global", -36), Row(20, "local", 60)>>
  /\ raw_correlations = <<[pair_key |-> "SPA_ITA", correlation |-> -36],
                          [pair_key |-> "ENG_GER", correlation |-> 36]>>

\* A file the claim calls malformed: it cannot be read to a frame, it is
\* empty, its name gives no pair of languages, or it has no local rows.
Malformed(file) ==
  \/ ~ file.readable
  \/ file.columns < 3 \/ file.columns > 5
  \/ file.rows = <<>>
  \/ extract_language_pair(file.parts)[1] = None
  \/ LocalRows(file.rows) = {}

\* The files the loop has processed.
ProcessedFiles == 1..(next_file - 1)

\* The mapping holds the correlation of the i-th file under the file's pair.
Recorded(i) ==
  \E k \in DOMAIN raw_correlations :
    /\ raw_correlations[k].pair_key = NameKey(correlation_files[i])
    /\ Chosen(correlation_files[i].rows, Some(raw_correlations[k].correlation))

\* Every entry of the mapping is the pair of a processed file that is not
\* malformed, and the loop has not raised.
OnlyFromGoodFiles ==
  /\ ppc = "extracting"
  /\ \A k \in DOMAIN raw_correlations :
       \E i \in ProcessedFiles :
         /\ ~ Malformed(correlation_files[i])
         /\ raw_correlations[k].pair_key = NameKey(correlation_files[i])

\* C25: a malformed file adds no entry and raises nothing, and every other
\* processed file has its correlation recorded in the mapping.
C25_EveryOtherFileRecorded ==
  /\ OnlyFromGoodFiles
  /\ \A i \in ProcessedFiles : ~ Malformed(correlation_files[i]) => Recorded(i)

\* C25, as the code has it: a malformed file adds no entry and raises
\* nothing, and every other processed file has its correlation recorded in
\* the mapping unless a later file of the same pair has replaced it.
C25_LastFileOfAPairRecorded ==
  /\ OnlyFromGoodFiles
  /\ \A i \in ProcessedFiles :
       /\ ~ Malformed(correlation_files[i])
       /\ \A j \in ProcessedFiles :
            j > i /\ ~ Malformed(correlation_files[j]) =>
              NameKey(correlation_files[j]) # NameKey(correlation_files[i])
       => Recorded(i)

\* An unreadable SPA_ITA file was skipped and the ENG_GER file after it was
\* recorded.
C25_Witness ==
  /\ next_file = 3
  /\ ~ correlation_files[1].readable
  /\ ~ Malformed(correlation_files[2])
  /\ raw_correlations = <<[pair_key |-> "ENG_GER", correlation |-> 24]>>
====
